---- MODULE Spec2Model ----
(***************************************************************************)
(* A model of async-graphql's generated subscription pipeline              *)
(* (src/derive/src/subscription.rs: the code `generate` emits for each     *)
(* #[field] of a #[Subscription] impl) and of the warp integration         *)
(* (src/integrations/warp/src/lib.rs).                                     *)
(*                                                                         *)
(* Strings that the code compares or transforms (identifiers, field and    *)
(* argument names, header values) are sequences of one-character strings,  *)
(* so that camel-casing, literal comparison and header parsing are         *)
(* computed and not assumed.                                               *)
(***************************************************************************)
EXTENDS Integers, Sequences, FiniteSets, TLC

VARIABLES ops, http, ws, gen

vars == <<ops, http, ws, gen>>

(***************************************************************************)
(* Bounds of the model.                                                    *)
(***************************************************************************)
\* the longest raw sequence a handler's stream yields before the model stops
\* asking it for more
MaxRaw == 3
\* the largest max-age an execution result carries
MaxAge == 2
\* the number of inbound WebSocket frames the model lets a client send
MaxFrames == 3
\* the number of raw items per operation when two operations run concurrently
MaxConcRaw == 3
\* the largest number of #[field] methods of an impl handed to generate
MaxFields == 2
\* the number of calls of argument getters per operation
MaxGetterCalls == 2

(***************************************************************************)
(* Option and Result.                                                      *)
(***************************************************************************)
None == [tag |-> "None"]

Some(x) == [tag |-> "Some", v |-> x]

IsSome(o) == o.tag = "Some"

Ok(x) == [ok |-> TRUE, v |-> x]

Err(x) == [ok |-> FALSE, e |-> x]

(***************************************************************************)
(* Names.  Inflector's to_camel_case on the snake_case identifiers of the  *)
(* model: an underscore is dropped and the letter after it is upper-cased. *)
(***************************************************************************)
Upper(c) ==
    CASE c = "m" -> "M"
      [] c = "b" -> "B"
      [] c = "t" -> "T"
      [] OTHER -> c

RECURSIVE to_camel_case(_)
to_camel_case(s) ==
    IF s = <<>> THEN <<>>
    ELSE IF Head(s) = "_"
         THEN IF Len(s) = 1 THEN <<>>
              ELSE <<Upper(s[2])>> \o to_camel_case(Tail(Tail(s)))
         ELSE <<Head(s)>> \o to_camel_case(Tail(s))

(***************************************************************************)
(* The #[Subscription] impl the model compiles: its methods as `generate`  *)
(* sees them (identifier, #[field] attributes, signature).                 *)
(***************************************************************************)
\* a default-value expression `base + inc`, evaluated when the closure
\* `|| -> ty { default }` is called
EvalDefault(d) == [t |-> "Int", n |-> d.base + d.inc]

Null == [t |-> "Null"]

GqlTypename == <<"S", "u", "b">>

FieldDecls ==
    << [ident |-> <<"t", "i", "c", "k">>, name |-> None, is_async |-> TRUE,
        output |-> "Value", sig |-> "ok", guard |-> FALSE, post_guard |-> FALSE,
        args |-> << [ident |-> <<"l", "i", "m">>, name |-> None,
                     ty |-> "OptInt", default |-> None] >>],
       [ident |-> <<"o", "n", "_", "m", "s", "g">>, name |-> None, is_async |-> TRUE,
        output |-> "Result", sig |-> "ok", guard |-> TRUE, post_guard |-> FALSE,
        args |-> << [ident |-> <<"f", "r", "o", "m">>, name |-> None,
                     ty |-> "Int", default |-> None],
                    [ident |-> <<"s", "t", "e", "p", "_", "b", "y">>, name |-> None,
                     ty |-> "Int", default |-> Some([base |-> 1, inc |-> 1])] >>] >>

\* lines 151-153: the argument's GraphQL name
ArgName(a) == IF IsSome(a.name) THEN a.name.v ELSE to_camel_case(a.ident)

\* lines 48-51: the field's GraphQL name
FieldName(d) == IF IsSome(d.name) THEN d.name.v ELSE to_camel_case(d.ident)

\* lines 139-186: what get_params needs of each argument, in declaration order
GenArgs(d) ==
    [i \in 1..Len(d.args) |->
        [name |-> ArgName(d.args[i]), ty |-> d.args[i].ty,
         default |-> d.args[i].default]]

\* one entry of create_stream (lines 305-313) with the stream_fn it holds
GenField(d) ==
    [field_name |-> FieldName(d), args |-> GenArgs(d), guard |-> d.guard,
     returns_result |-> (d.output = "Result")]

\* lines 81-127: the checks of the method's parameters; sig names the defect
\* of the signature, "ok" when it has none
SigError(sig) ==
    CASE sig = "self_not_first" -> "The self receiver must be the first parameter."
      [] sig = "ctx_not_second" -> "The Context must be the second argument."
      [] OTHER -> "Incorrect argument type"

\* a post guard is accepted and dropped
RECURSIVE GenLoop_ignoring_post_guard(_, _)
GenLoop_ignoring_post_guard(decls, acc) ==
    IF decls = <<>> THEN Ok(acc)
    ELSE LET d == Head(decls) IN
         IF ~d.is_async
         THEN Err("The subscription stream function must be asynchronous")
         ELSE IF d.output = "Missing" THEN Err("Missing type")
         ELSE IF d.sig # "ok" THEN Err(SigError(d.sig))
         ELSE GenLoop_ignoring_post_guard(Tail(decls), Append(acc, GenField(d)))

\* lines 44-325: the loop over the impl's methods; an error ends generation.
\* Per method the checks run in the order of the source: asyncness (64-69),
\* return type (71-76), parameters (81-127), post guard (246-251)
RECURSIVE GenLoop(_, _)
GenLoop(decls, acc) ==
    IF decls = <<>> THEN Ok(acc)
    ELSE LET d == Head(decls) IN
         IF ~d.is_async
         THEN Err("The subscription stream function must be asynchronous")
         ELSE IF d.output = "Missing" THEN Err("Missing type")
         ELSE IF d.sig # "ok" THEN Err(SigError(d.sig))
         ELSE IF d.post_guard
         THEN Err("The subscription field does not support post guard")
         ELSE GenLoop(Tail(decls), Append(acc, GenField(d)))

generate(decls) == GenLoop(decls, <<>>)

\* the create_stream entries of the compiled Subscription type
Bindings == generate(FieldDecls).v

\* the impls handed to generate: up to MaxFields #[field] methods, each
\* asynchronous or not, with or without a return type, a well-formed signature,
\* a guard, a post guard
GenIdents == << <<"t", "i", "c", "k">>, <<"o", "n", "_", "m", "s", "g">>, <<"e", "v">> >>

DeclChoices(i) ==
    { [ident |-> GenIdents[((i - 1) % Len(GenIdents)) + 1], name |-> None,
       is_async |-> a, output |-> o, sig |-> s, guard |-> g, post_guard |-> pg,
       args |-> <<>>] :
        a \in BOOLEAN, o \in {"Value", "Missing"}, s \in {"ok", "ctx_not_second"},
        g \in BOOLEAN, pg \in BOOLEAN }

RECURSIVE DeclListsOf(_)
DeclListsOf(n) ==
    IF n = 0 THEN {<<>>}
    ELSE {Append(l, d) : l \in DeclListsOf(n - 1), d \in DeclChoices(n)}

DeclLists == UNION {DeclListsOf(n) : n \in 1..MaxFields}

\* phase: "idle", "done" (generate has returned `result` for `decls`)
GenIdle == [phase |-> "idle", decls |-> <<>>, result |-> Ok(<<>>)]

(***************************************************************************)
(* A subscription selection (ctx.item) and the execution context.          *)
(***************************************************************************)
N_tick == <<"t", "i", "c", "k">>
N_Tick == <<"T", "i", "c", "k">>
N_onMsg == <<"o", "n", "M", "s", "g">>
N_on_msg == <<"o", "n", "_", "m", "s", "g">>
N_lim == <<"l", "i", "m">>
N_from == <<"f", "r", "o", "m">>
N_stepBy == <<"s", "t", "e", "p", "B", "y">>
N_alias == <<"a">>

SelNames == {N_tick, N_Tick, N_onMsg, N_on_msg}

Positions == {[line |-> 1, column |-> 3], [line |-> 2, column |-> 5]}

IntValue(n) == [t |-> "Int", n |-> n]

StrValue == [t |-> "Str"]

\* the argument maps a request may carry: `from` absent, well-typed or ill-typed,
\* `stepBy` and `lim` absent or well-typed
ArgMaps ==
    { f \cup s \cup l :
        f \in {{}, {<<N_from, IntValue(5)>>}, {<<N_from, StrValue>>}},
        s \in {{}, {<<N_stepBy, IntValue(3)>>}},
        l \in {{}, {<<N_lim, IntValue(4)>>}} }

Selections ==
    [name : SelNames, alias : {None, Some(N_alias)}, arguments : ArgMaps,
     pos : Positions]

\* Field::response_key: the alias when there is one, else the name
response_key(sel) == IF IsSome(sel.alias) THEN sel.alias.v ELSE sel.name

\* ctx.path_node of the field's context
CtxPathNode(sel) == Some([parent |-> None, segment |-> response_key(sel)])

HasArg(sel, name) == \E p \in sel.arguments : p[1] = name

GetArg(sel, name) == (CHOOSE p \in sel.arguments : p[1] = name)[2]

\* Context::param_value: the provided value parsed as the declared type; when
\* absent the default closure's value, else absence where the type allows it
param_value(sel, name, default, ty) ==
    IF HasArg(sel, name)
    THEN LET v == GetArg(sel, name) IN
         IF v.t = "Int" THEN Ok(v)
         ELSE Err([kind |-> "InvalidArgument", name |-> name, pos |-> sel.pos])
    ELSE IF IsSome(default) THEN Ok(EvalDefault(default.v))
    ELSE IF ty = "OptInt" THEN Ok(Null)
    ELSE Err([kind |-> "MissingArgument", name |-> name, pos |-> sel.pos])

\* Error::into_error_with_path
into_error_with_path(kind, pos, path_node) ==
    [kind |-> kind, pos |-> pos, path |-> path_node]

(***************************************************************************)
(* The generated stream of one subscription operation.                     *)
(*                                                                         *)
(*   stage      where the stream's state machine stands:                   *)
(*     "nostream"  create_field_stream has not been called                 *)
(*     "nf"        once(async { Err(FieldNotFound) }), not yet polled      *)
(*     "fn"        try_flatten(once(stream_fn)), stream_fn not yet begun   *)
(*     "bound"     stream_fn past get_params, before the guard             *)
(*     "guarded"   stream_fn past the guard, before the handler call       *)
(*     "flow"      the scan(then(raw)) stream is the inner stream          *)
(*     "rawwait"   `then` is polling the handler's raw stream              *)
(*     "resolving" `then` holds the per-item future                        *)
(*     "drained"   the once has yielded its error; nothing is left         *)
(*     "done"      the stream has returned None                            *)
(*     "dropped"   the consumer has dropped the stream                     *)
(*   demand     a poll_next of the consumer is outstanding                 *)
(*   errored    the state of scan                                          *)
(*   args       the values get_params bound, in declaration order          *)
(*   inflight   the raw item and context of the per-item future            *)
(*   out        the items the consumer has received                        *)
(*   trace      what the operation did, in order                           *)
(***************************************************************************)
Ops == {"op1", "op2"}

NoSel == [name |-> <<>>, alias |-> None, arguments |-> {},
          pos |-> [line |-> 0, column |-> 0]]

InitOp ==
    [stage |-> "nostream", sel |-> NoSel, field |-> 0, demand |-> FALSE,
     errored |-> FALSE, args |-> <<>>, inflight |-> None, out |-> <<>>,
     trace |-> <<>>]

Ev(e, x) == [e |-> e, x |-> x]

Log(s, e, x) == Append(s.trace, Ev(e, x))

\* the events of kind e in a trace
Events(tr, e) == SelectSeq(tr, LAMBDA ev : ev.e = e)

Count(tr, e) == Len(Events(tr, e))

\* ASCII lower-casing of the letters the names are written in
Lower(c) ==
    CASE c = "M" -> "m"
      [] c = "B" -> "b"
      [] c = "T" -> "t"
      [] OTHER -> c

CaseFold(s) == [i \in 1..Len(s) |-> Lower(s[i])]

\* the names are compared without regard to letter case
RECURSIVE DispatchFrom_ignore_case(_, _, _)
DispatchFrom_ignore_case(binds, name, i) ==
    IF i > Len(binds) THEN 0
    ELSE IF CaseFold(name) = CaseFold(binds[i].field_name) THEN i
    ELSE DispatchFrom_ignore_case(binds, name, i + 1)

\* lines 305-313, 360: the `if ctx.item.node.name.node == #field_name` chain, in
\* the order of the impl's methods; 0 when no entry matches
RECURSIVE DispatchFrom(_, _, _)
DispatchFrom(binds, name, i) ==
    IF i > Len(binds) THEN 0
    ELSE IF name = binds[i].field_name THEN i
    ELSE DispatchFrom(binds, name, i + 1)

Dispatch(binds, name) == DispatchFrom(binds, name, 1)

\* the error names the response key instead of the requested field
FieldNotFound_keyed(sel) ==
    [kind |-> "FieldNotFound", field_name |-> response_key(sel),
     object |-> GqlTypename, pos |-> sel.pos]

\* lines 361-365
FieldNotFound(sel) ==
    [kind |-> "FieldNotFound", field_name |-> sel.name, object |-> GqlTypename,
     pos |-> sel.pos]

\* the handler is called while the stream is being created
create_field_stream_eager(s, sel) ==
    LET i == Dispatch(Bindings, sel.name) IN
    [s EXCEPT !.sel = sel, !.field = i,
              !.stage = IF i = 0 THEN "nf" ELSE "flow",
              !.trace = Log(s, "create", i) \o
                        (IF i = 0 THEN <<>>
                         ELSE <<Ev("handler", [args |-> <<>>, ok |-> TRUE])>>)]

\* lines 356-367: SubscriptionType::create_field_stream
create_field_stream(s, sel) ==
    LET i == Dispatch(Bindings, sel.name) IN
    [s EXCEPT !.sel = sel, !.field = i,
              !.stage = IF i = 0 THEN "nf" ELSE "fn",
              !.trace = Log(s, "create", i)]

\* an item reaches the consumer: the outstanding poll_next returns it
Emit(s, item, stage) ==
    [s EXCEPT !.out = Append(s.out, item), !.demand = FALSE, !.stage = stage,
              !.trace = Append(s.trace, Ev("emit", item.ok))]

\* the outstanding poll_next returns None
Complete(s) ==
    [s EXCEPT !.demand = FALSE, !.stage = "done", !.inflight = None,
              !.trace = Append(s.trace, Ev("complete", 0))]

\* line 366: the once over async { Err(error) } is polled
PollNotFound(s) == Emit(s, Err(FieldNotFound(s.sel)), "drained")

\* lines 182-185, 254: get_params, one `let #ident = ctx.param_value(..)?` per
\* argument in declaration order; the first Err leaves stream_fn
RECURSIVE GetParams(_, _, _, _)
GetParams(sel, args, i, acc) ==
    IF i > Len(args) THEN [res |-> Ok(acc.vals), calls |-> acc.calls]
    ELSE LET a == args[i]
             r == param_value(sel, a.name, a.default, a.ty)
             calls == Append(acc.calls, Ev("bind", [name |-> a.name, ok |-> r.ok]))
         IN IF r.ok
            THEN GetParams(sel, args, i + 1,
                           [vals |-> Append(acc.vals, r.v), calls |-> calls])
            ELSE [res |-> Err(r.e), calls |-> calls]

\* a binding error is swallowed: the argument is passed as null
BindArgs_lenient(s) ==
    LET b == Bindings[s.field]
        vals == [i \in 1..Len(b.args) |->
                    LET r == param_value(s.sel, b.args[i].name, b.args[i].default,
                                         b.args[i].ty)
                    IN IF r.ok THEN r.v ELSE Null]
        calls == [i \in 1..Len(b.args) |->
                    Ev("bind", [name |-> b.args[i].name,
                                ok |-> param_value(s.sel, b.args[i].name,
                                                   b.args[i].default, b.args[i].ty).ok])]
    IN [s EXCEPT !.trace = s.trace \o calls, !.args = vals,
                 !.stage = IF b.guard THEN "bound" ELSE "guarded"]

\* whether a call of param_value runs the default closure
EvaluatesDefault(sel, name, default) == ~HasArg(sel, name) /\ IsSome(default)

\* the getter ignores what the request carries and answers with the default
ParamGetter_default_only(s, i) ==
    LET a == Bindings[s.field].args[i]
        r == IF IsSome(a.default) THEN Ok(EvalDefault(a.default.v))
             ELSE param_value(s.sel, a.name, a.default, a.ty)
    IN [s EXCEPT !.trace = Log(s, "getter",
                               [name |-> a.name, res |-> r,
                                default_evaluated |-> IsSome(a.default)])]

\* line 183: the getter of argument i, `|| ctx.param_value(#name, #default)`,
\* is called: the call runs param_value again
ParamGetter(s, i) ==
    LET a == Bindings[s.field].args[i]
        r == param_value(s.sel, a.name, a.default, a.ty)
    IN [s EXCEPT !.trace = Log(s, "getter",
                               [name |-> a.name, res |-> r,
                                default_evaluated |->
                                    EvaluatesDefault(s.sel, a.name, a.default)])]

\* a binding error is held back until the guard has been checked
BindArgs_defer_error(s) ==
    LET b == Bindings[s.field]
        g == GetParams(s.sel, b.args, 1, [vals |-> <<>>, calls |-> <<>>])
        t == [s EXCEPT !.trace = s.trace \o g.calls]
    IN IF g.res.ok
       THEN [t EXCEPT !.args = g.res.v,
                      !.stage = IF b.guard THEN "bound" ELSE "guarded"]
       ELSE IF b.guard THEN [t EXCEPT !.stage = "bound"]
       ELSE Emit(t, Err(g.res.e), "drained")

\* lines 254-255: stream_fn up to the guard
BindArgs(s) ==
    LET b == Bindings[s.field]
        g == GetParams(s.sel, b.args, 1, [vals |-> <<>>, calls |-> <<>>])
        t == [s EXCEPT !.trace = s.trace \o g.calls]
    IN IF g.res.ok
       THEN [t EXCEPT !.args = g.res.v,
                      !.stage = IF b.guard THEN "bound" ELSE "guarded"]
       ELSE Emit(t, Err(g.res.e), "drained")

\* the guard's result is computed and not propagated
GuardCheck_ignored(s, passes) ==
    [s EXCEPT !.trace = Log(s, "guard", passes), !.stage = "guarded"]

\* lines 243-245, 255: `#guard.check(ctx).await.map_err(..)?`
GuardCheck(s, passes) ==
    LET t == [s EXCEPT !.trace = Log(s, "guard", passes)] IN
    IF passes THEN [t EXCEPT !.stage = "guarded"]
    ELSE Emit(t, Err(into_error_with_path("GuardRejected", s.sel.pos,
                                          CtxPathNode(s.sel))), "drained")

\* the handler's error is yielded and the stream then goes on to poll a raw
\* stream
InvokeHandler_goes_on(s, succeeds) ==
    LET b == Bindings[s.field]
        fine == succeeds \/ ~b.returns_result
        t == [s EXCEPT !.trace = Log(s, "handler", [args |-> s.args, ok |-> fine]),
                       !.errored = FALSE]
    IN IF fine THEN [t EXCEPT !.stage = "flow"]
       ELSE Emit(t, Err(into_error_with_path("HandlerFailure", s.sel.pos,
                                             CtxPathNode(s.sel))), "flow")

\* lines 235-241, 262: `self.#ident(ctx, #(#use_params),*).await.map_err(..)?`;
\* lines 195-208: a method that returns the stream itself cannot fail
InvokeHandler(s, succeeds) ==
    LET b == Bindings[s.field]
        fine == succeeds \/ ~b.returns_result
        t == [s EXCEPT !.trace = Log(s, "handler", [args |-> s.args, ok |-> fine])]
    IN IF fine THEN [t EXCEPT !.stage = "flow", !.errored = FALSE]
       ELSE Emit(t, Err(into_error_with_path("HandlerFailure", s.sel.pos,
                                             CtxPathNode(s.sel))), "drained")

(***************************************************************************)
(* The per-item pipeline: then(raw, closure) under scan(.., false, latch). *)
(***************************************************************************)
\* the raw values a handler's stream may yield
RawValues == {0, 1, 2}

\* the raw values OutputValueType::resolve fails on
Unresolvable == {0}

\* OutputValueType::resolve(&msg, &ctx_selection_set, &*field)
resolve(msg, ctx, field) ==
    IF msg \in Unresolvable
    THEN Err([kind |-> "ResolveError", pos |-> field.pos, path |-> ctx.path_node])
    ELSE Ok([type |-> "Number", n |-> msg])

\* lines 256, 270-279: the context of one item; field_name is the response key
\* captured when stream_fn ran
ItemContext(sel) ==
    [resolve_id |-> 0,
     path_node |-> Some([parent |-> None, segment |-> response_key(sel)])]

\* the object carries a second key next to the field's
JsonWrap_two_keys(field_name, value) ==
    [type |-> "Object",
     fields |-> {<<field_name, value>>, <<<<"i", "d">>, [type |-> "Number", n |-> 0]>>}]

\* lines 283-285: json!({ field_name.as_str(): value })
JsonWrap(field_name, value) ==
    [type |-> "Object", fields |-> {<<field_name, value>>}]

\* the value is keyed by the field's name, not by the response key
ItemResult_by_name(sel, msg, ctx) ==
    LET r == resolve(msg, ctx, sel) IN
    IF r.ok THEN Ok(JsonWrap(sel.name, r.v)) ELSE r

\* lines 280-286: resolve(..).await.map(|value| json!({..}))
ItemResult(sel, msg, ctx) ==
    LET r == resolve(msg, ctx, sel) IN
    IF r.ok THEN Ok(JsonWrap(response_key(sel), r.v)) ELSE r

\* the latch is never set
ScanF_no_latch(errored, item) == [errored |-> errored, next |-> Some(item)]

\* lines 293-301: the closure of scan; None ends the scan stream
ScanF(errored, item) ==
    IF errored THEN [errored |-> errored, next |-> None]
    ELSE [errored |-> IF ~item.ok THEN TRUE ELSE errored, next |-> Some(item)]

\* the adapter reads ahead: two raw items are requested per pull
RequestRaw_prefetch(s) ==
    [s EXCEPT !.stage = "rawwait",
              !.trace = Log(s, "raw_req", 0) \o <<Ev("raw_req", 0)>>]

\* line 262: `then` polls the handler's stream for its next item
RequestRaw(s) ==
    [s EXCEPT !.stage = "rawwait", !.trace = Log(s, "raw_req", 0)]

\* the per-item futures run side by side: the raw stream is polled again while
\* a resolution is pending
RawItem_eager(s, msg) ==
    LET ctx == ItemContext(s.sel) IN
    [s EXCEPT !.stage = "rawwait",
              !.inflight = Some([msg |-> msg, ctx |-> ctx]),
              !.trace = Log(s, "raw_item", msg) \o <<Ev("resolve", ctx)>>]

\* the last context is kept and used again for the next item
RawItem_reuse_ctx(s, msg) ==
    LET old == Events(s.trace, "ctx_drop")
        ctx == IF old = <<>> THEN ItemContext(s.sel) ELSE old[Len(old)].x
    IN [s EXCEPT !.stage = "resolving",
                 !.inflight = Some([msg |-> msg, ctx |-> ctx]),
                 !.trace = Log(s, "raw_item", msg) \o <<Ev("resolve", ctx)>>]

\* lines 264-279: the raw stream yields msg; `then` calls the closure, whose
\* future builds the item's context and starts resolving
RawItem(s, msg) ==
    LET ctx == ItemContext(s.sel) IN
    [s EXCEPT !.stage = "resolving",
              !.inflight = Some([msg |-> msg, ctx |-> ctx]),
              !.trace = Log(s, "raw_item", msg) \o <<Ev("resolve", ctx)>>]

\* the raw stream ends: then, scan and try_flatten each return None
RawEnd(s) == Complete([s EXCEPT !.trace = Log(s, "raw_end", 0)])

\* the resolve ids a resolution draws from the context's counter
ResolveIdsTaken(msg) == msg + 1

\* lines 270, 280-281: what resolving msg leaves in the item's context; the
\* counter is the `resolve_id` local of the per-item future
ContextAfter(ctx, msg) == [ctx EXCEPT !.resolve_id = @ + ResolveIdsTaken(msg)]

\* lines 280-302: the per-item future completes (its context and counter are
\* dropped with it), `then` yields its result to scan, and try_flatten passes
\* on what scan returns
ResolveDone(s) ==
    LET f == s.inflight.v
        item == ItemResult(s.sel, f.msg, f.ctx)
        sc == ScanF(s.errored, item)
        t == [s EXCEPT !.inflight = None, !.errored = sc.errored,
                       !.trace = Log(s, "resolved", f.msg) \o
                                 <<Ev("ctx_drop", ContextAfter(f.ctx, f.msg))>>]
    IN IF IsSome(sc.next) THEN Emit(t, sc.next.v, "flow") ELSE Complete(t)

(***************************************************************************)
(* Actions of the subscription pipeline.                                   *)
(***************************************************************************)
Step(o, new) == /\ ops' = [ops EXCEPT ![o] = new]
                /\ UNCHANGED <<http, ws, gen>>

\* the executor dispatches the operation's selection
CreateFieldStream(o) ==
    /\ ops[o].stage = "nostream"
    /\ \E sel \in Selections : Step(o, create_field_stream(ops[o], sel))

\* the consumer polls the stream for its next item
Pull(o) ==
    /\ ops[o].stage \notin {"nostream", "done", "dropped"}
    /\ ~ops[o].demand
    /\ Step(o, [ops[o] EXCEPT !.demand = TRUE, !.trace = Log(ops[o], "pull", 0)])

\* the pipeline runs on a task of its own, which outlives the stream handle
DropStream_detached(s) == [s EXCEPT !.trace = Log(s, "drop", 0)]

\* lines 253-311: the returned Pin<Box<dyn Stream>> owns the whole combinator
\* chain (once, try_flatten, scan, then, the handler's stream and the per-item
\* future) and nothing is spawned: dropping it drops them all
DropStream(s) ==
    [s EXCEPT !.demand = FALSE, !.stage = "dropped", !.inflight = None,
              !.trace = Log(s, "drop", 0)]

\* the consumer drops the stream
Drop(o) ==
    /\ ops[o].stage \notin {"nostream", "done", "dropped"}
    /\ Step(o, DropStream(ops[o]))

StepNotFound(o) ==
    /\ ops[o].stage = "nf" /\ ops[o].demand
    /\ Step(o, PollNotFound(ops[o]))

StepBind(o) ==
    /\ ops[o].stage = "fn" /\ ops[o].demand
    /\ Step(o, BindArgs(ops[o]))

StepGuard(o) ==
    /\ ops[o].stage = "bound" /\ ops[o].demand
    /\ \E passes \in BOOLEAN : Step(o, GuardCheck(ops[o], passes))

StepHandler(o) ==
    /\ ops[o].stage = "guarded" /\ ops[o].demand
    /\ \E succeeds \in BOOLEAN : Step(o, InvokeHandler(ops[o], succeeds))

StepRequestRaw(o) ==
    /\ ops[o].stage = "flow" /\ ops[o].demand
    /\ Step(o, RequestRaw(ops[o]))

StepRawItem(o) ==
    /\ ops[o].stage = "rawwait" /\ ops[o].demand
    /\ Count(ops[o].trace, "raw_item") < MaxRaw
    /\ \E msg \in RawValues : Step(o, RawItem(ops[o], msg))

StepRawEnd(o) ==
    /\ ops[o].stage = "rawwait" /\ ops[o].demand
    /\ Step(o, RawEnd(ops[o]))

\* one latch serves every stream of the process
StreamState_shared_latch(all, o) ==
    [all[o] EXCEPT !.errored = \E p \in DOMAIN all : all[p].errored]

\* lines 290-293: scan(false, ..) gives each stream its own latch, and the
\* closures of one stream capture that stream's field and environment only
StreamState(all, o) == all[o]

StepResolveDone(o) ==
    /\ ops[o].stage = "resolving" /\ ops[o].demand
    /\ Step(o, ResolveDone(StreamState(ops, o)))

\* the once has yielded: the next poll returns None
StepDrained(o) ==
    /\ ops[o].stage = "drained" /\ ops[o].demand
    /\ Step(o, Complete(ops[o]))

(***************************************************************************)
(* Two operations running concurrently: the executor holds one stream per  *)
(* operation and polls them in any interleaving.                           *)
(***************************************************************************)
ConcSelections ==
    { [name |-> N_tick, alias |-> None, arguments |-> {},
       pos |-> [line |-> 1, column |-> 3]],
      [name |-> N_onMsg, alias |-> Some(N_alias),
       arguments |-> {<<N_from, IntValue(5)>>},
       pos |-> [line |-> 2, column |-> 5]] }

ConcRawValues == {0, 1}

ConcCreate(o) ==
    /\ ops[o].stage = "nostream"
    /\ \E sel \in ConcSelections : Step(o, create_field_stream(ops[o], sel))

ConcRawItem(o) ==
    /\ ops[o].stage = "rawwait" /\ ops[o].demand
    /\ Count(ops[o].trace, "raw_item") < MaxConcRaw
    /\ \E msg \in ConcRawValues : Step(o, RawItem(ops[o], msg))

(***************************************************************************)
(* The HTTP request filter (graphql_opts) and the reply (GQLResponse).     *)
(***************************************************************************)
Methods == {"GET", "POST", "PUT", "HEAD"}

\* the percent-decoding of one token of a raw query string
PercentDecode(c) ==
    CASE c = "%7B" -> "{"
      [] c = "%7D" -> "}"
      [] c = "+" -> " "
      [] OTHER -> c

DecodeValue(v) == [i \in 1..Len(v) |-> PercentDecode(v[i])]

\* raw query strings, as their key=value pairs in order
Q_empty == <<>>
Q_a == << <<"query", <<"%7B", "a", "%7D">>>> >>
Q_b == << <<"query", <<"%7B", "b", "+", "%7D">>>>, <<"operationName", <<"b">>>> >>
Q_noquery == << <<"operationName", <<"x">>>> >>
Q_twice == << <<"query", <<"a">>>>, <<"query", <<"b">>>> >>

Queries == {Q_empty, Q_a, Q_b, Q_noquery, Q_twice}

PairsOf(q, key) == {i \in 1..Len(q) : q[i][1] = key}

\* serde_urlencoded::from_str::<Request>: `query` is required and no field may
\* come twice; operationName is optional
serde_urlencoded_from_str(q) ==
    IF Cardinality(PairsOf(q, "query")) = 0 THEN Err("missing field query")
    ELSE IF \E k \in {"query", "operationName"} : Cardinality(PairsOf(q, k)) > 1
    THEN Err("duplicate field")
    ELSE Ok([query |-> DecodeValue(q[CHOOSE i \in PairsOf(q, "query") : TRUE][2]),
             operation_name |->
                IF PairsOf(q, "operationName") = {} THEN None
                ELSE Some(DecodeValue(
                        q[CHOOSE i \in PairsOf(q, "operationName") : TRUE][2]))])

\* request bodies: the format of the bytes and the operation they carry
Bodies ==
    { [fmt |-> "json", query |-> Some(<<"{", "c", "}">>)],
      [fmt |-> "json", query |-> None],
      [fmt |-> "multipart", query |-> Some(<<"{", "d", "}">>)],
      [fmt |-> "garbage", query |-> None] }

ContentTypes == {None, Some("application/json"), Some("multipart/form-data")}

\* async_graphql::http::receive_body: a multipart content type selects the
\* multipart parser, anything else the JSON parser
receive_body(content_type, body) ==
    LET want == IF content_type = Some("multipart/form-data")
                THEN "multipart" ELSE "json"
    IN IF body.fmt # want THEN Err("invalid request")
       ELSE IF body.query.tag = "None" THEN Err("missing field query")
       ELSE Ok([query |-> body.query.v, operation_name |-> None])

BadRequest(err) == [rejection |-> "BadRequest", err |-> err]

\* every method that has no body is answered from the query string
graphql_opts_handler_bodyless(method, query, content_type, body) ==
    IF method \in {"GET", "HEAD"}
    THEN LET r == serde_urlencoded_from_str(query) IN
         [consulted |-> {"query"},
          result |-> IF r.ok THEN Ok(r.v) ELSE Err(BadRequest(r.e))]
    ELSE LET r == receive_body(content_type, body) IN
         [consulted |-> {"content-type", "body"},
          result |-> IF r.ok THEN Ok(r.v) ELSE Err(BadRequest(r.e))]

\* lines 112-135: the and_then closure of graphql_opts; `consulted` names the
\* extracted parts the branch reads
graphql_opts_handler(method, query, content_type, body) ==
    IF method = "GET"
    THEN LET r == serde_urlencoded_from_str(query) IN
         [consulted |-> {"query"},
          result |-> IF r.ok THEN Ok(r.v) ELSE Err(BadRequest(r.e))]
    ELSE LET r == receive_body(content_type, body) IN
         [consulted |-> {"content-type", "body"},
          result |-> IF r.ok THEN Ok(r.v) ELSE Err(BadRequest(r.e))]

\* execution results: whether the result holds an error, whether it holds
\* data, and its merged cache control
Responses ==
    [error : BOOLEAN, data : BOOLEAN,
     cache_control : [max_age : 0..MaxAge, public : BOOLEAN]]

\* Response::is_ok
is_ok(resp) == ~resp.error

DigitChars == <<"0", "1", "2", "3", "4", "5", "6", "7", "8", "9">>

\* format!("{}", n) of an unsigned number
RECURSIVE Digits(_)
Digits(n) ==
    IF n < 10 THEN <<DigitChars[n + 1]>>
    ELSE Digits(n \div 10) \o <<DigitChars[(n % 10) + 1]>>

\* CacheControl::value: nothing without a max-age, else "max-age=N" and
\* ", private" unless public
cache_control_value(cc) ==
    IF cc.max_age = 0 THEN None
    ELSE Some(<<"m", "a", "x", "-", "a", "g", "e", "=">> \o Digits(cc.max_age)
              \o (IF cc.public THEN <<>>
                  ELSE <<",", " ", "p", "r", "i", "v", "a", "t", "e">>))

\* the bytes http::HeaderValue refuses
ControlChars == {"\n", "\r", "\f"}

\* str::parse::<HeaderValue>
HeaderValueParse(s) ==
    IF \E i \in 1..Len(s) : s[i] \in ControlChars THEN Err("invalid header value")
    ELSE Ok(s)

\* http::HeaderName of a name: header names are lower-cased
HeaderName(n) ==
    CASE n = "Sec-WebSocket-Protocol" -> "sec-websocket-protocol"
      [] OTHER -> n

\* HeaderMap::insert
Insert(headers, n, v) ==
    [x \in DOMAIN headers \cup {HeaderName(n)} |->
        IF x = HeaderName(n) THEN v ELSE headers[x]]

\* warp::reply::with_header
with_header(reply, n, v) == [reply EXCEPT !.headers = Insert(reply.headers, n, v)]

\* the header is added whatever the result holds
add_cache_control_always(http_resp, resp) ==
    LET cc == cache_control_value(resp.cache_control) IN
    IF IsSome(cc) /\ HeaderValueParse(cc.v).ok
    THEN [http_resp EXCEPT
             !.headers = Insert(http_resp.headers, "cache-control",
                                HeaderValueParse(cc.v).v)]
    ELSE http_resp

\* the header is added to public results only
add_cache_control_public(http_resp, resp) ==
    LET cc == cache_control_value(resp.cache_control) IN
    IF is_ok(resp) /\ resp.cache_control.public /\ IsSome(cc)
       /\ HeaderValueParse(cc.v).ok
    THEN [http_resp EXCEPT
             !.headers = Insert(http_resp.headers, "cache-control",
                                HeaderValueParse(cc.v).v)]
    ELSE http_resp

\* lines 237-245
add_cache_control(http_resp, resp) ==
    IF is_ok(resp)
    THEN LET cc == cache_control_value(resp.cache_control) IN
         IF IsSome(cc)
         THEN LET value == HeaderValueParse(cc.v) IN
              IF value.ok
              THEN [http_resp EXCEPT
                       !.headers = Insert(http_resp.headers, "cache-control",
                                          value.v)]
              ELSE http_resp
         ELSE http_resp
    ELSE http_resp

\* warp::reply::json
reply_json(resp) ==
    [status |-> 200, headers |-> [x \in {} |-> 0],
     body |-> [data |-> resp.data, error |-> resp.error]]

\* lines 247-257: impl Reply for GQLResponse
into_response(resp) ==
    add_cache_control(
        with_header(reply_json(resp), "content-type", "application/json"), resp)

NoRequest == [query |-> <<>>, operation_name |-> None]

NoResponse ==
    [error |-> FALSE, data |-> FALSE,
     cache_control |-> [max_age |-> 0, public |-> FALSE]]

NoReply == [status |-> 0, headers |-> [x \in {} |-> 0],
            body |-> [data |-> FALSE, error |-> FALSE]]

\* phase: "idle", "extracted" (the filter produced (schema, request)),
\* "rejected", "executed" (schema.execute returned), "replied"
HttpIdle ==
    [phase |-> "idle", method |-> "", query |-> <<>>, content_type |-> None,
     body |-> [fmt |-> "", query |-> None], consulted |-> {},
     request |-> NoRequest, rejection |-> "", executions |-> 0,
     response |-> NoResponse, reply |-> NoReply]

(***************************************************************************)
(* The WebSocket subscription filter (graphql_subscription_with_data).     *)
(***************************************************************************)
\* ws::Message values and the frames a connection may deliver: a message or a
\* protocol error
Messages ==
    { [kind |-> "text", payload |-> <<"connection_init">>],
      [kind |-> "text", payload |-> <<"start">>],
      [kind |-> "binary", payload |-> <<"stop">>] }

Frames == {Ok(m) : m \in Messages} \cup {Err("protocol error")}

\* ws::Message::into_bytes
into_bytes(m) == [bytes |-> m.payload]

\* ws::Message::text
message_text(s) == [kind |-> "text", payload |-> s]

\* the reply of ws.on_upgrade: 101 Switching Protocols
on_upgrade_reply ==
    [status |-> 101,
     headers |-> [x \in {"connection", "upgrade", "sec-websocket-accept"} |->
                    CASE x = "connection" -> "upgrade"
                      [] x = "upgrade" -> "websocket"
                      [] OTHER -> "accept-key"]]

\* the sub-protocol is advertised only to connections that have an initializer
upgrade_reply_when_initialized(initializer) ==
    IF IsSome(initializer)
    THEN with_header(on_upgrade_reply, "Sec-WebSocket-Protocol", "graphql-ws")
    ELSE on_upgrade_reply

\* lines 199-225: the reply of the filter, whatever the initializer
upgrade_reply(initializer) ==
    with_header(on_upgrade_reply, "Sec-WebSocket-Protocol", "graphql-ws")

\* a malformed frame is skipped and the frames after it are still delivered
inbound_step_skipping(w, frame) ==
    IF frame.ok
    THEN [w EXCEPT !.delivered = Append(w.delivered, into_bytes(frame.v))]
    ELSE w

\* lines 211-214: take_while(is_ok).map(unwrap).map(into_bytes), one frame on:
\* `ended` is take_while's done flag, `delivered` what the engine was handed
inbound_step(w, frame) ==
    IF w.ended THEN w
    ELSE IF frame.ok
    THEN [w EXCEPT !.delivered = Append(w.delivered, into_bytes(frame.v))]
    ELSE [w EXCEPT !.ended = TRUE]

NoWsReply == [status |-> 0, headers |-> [x \in {} |-> 0]]

\* phase: "idle", "rejected" (warp::ws() refused the request), "open", "closed"
WsIdle ==
    [phase |-> "idle", initializer |-> None, reply |-> NoWsReply,
     inbound |-> <<>>, delivered |-> <<>>, ended |-> FALSE, sent |-> <<>>]

Init ==
    /\ ops = [o \in Ops |-> InitOp]
    /\ http = HttpIdle
    /\ ws = WsIdle
    /\ gen = GenIdle

\* one operation at a time
Next ==
    \/ CreateFieldStream("op1")
    \/ Pull("op1")
    \/ Drop("op1")
    \/ StepNotFound("op1")
    \/ StepBind("op1")
    \/ StepGuard("op1")
    \/ StepHandler("op1")
    \/ StepRequestRaw("op1")
    \/ StepRawItem("op1")
    \/ StepRawEnd("op1")
    \/ StepResolveDone("op1")
    \/ StepDrained("op1")

Spec == Init /\ [][Next]_vars

\* code in the scope of stream_fn after get_params (a guard expression) calls
\* an argument's getter
StepGetter(o) ==
    /\ ops[o].stage \in {"bound", "guarded"} /\ ops[o].demand
    /\ Count(ops[o].trace, "getter") < MaxGetterCalls
    /\ \E i \in 1..Len(Bindings[ops[o].field].args) : Step(o, ParamGetter(ops[o], i))

\* the operation up to the handler call, with getter calls
NextGetter ==
    \/ CreateFieldStream("op1")
    \/ Pull("op1")
    \/ StepNotFound("op1")
    \/ StepBind("op1")
    \/ StepGetter("op1")
    \/ StepGuard("op1")
    \/ StepHandler("op1")
    \/ StepDrained("op1")

SpecGetter == Init /\ [][NextGetter]_vars

\* both operations are driven
NextConc ==
    \E o \in Ops :
        \/ ConcCreate(o)
        \/ Pull(o)
        \/ StepBind(o)
        \/ StepGuard(o)
        \/ StepHandler(o)
        \/ StepRequestRaw(o)
        \/ ConcRawItem(o)
        \/ StepRawEnd(o)
        \/ StepResolveDone(o)
        \/ StepDrained(o)

SpecConc == Init /\ [][NextConc]_vars

(***************************************************************************)
(* Actions of the HTTP filter and reply.                                   *)
(***************************************************************************)
\* a request arrives: warp extracts method, raw query, content-type and body,
\* and the and_then closure of graphql_opts runs
HttpRequest ==
    /\ http.phase = "idle"
    /\ \E method \in Methods, query \in Queries, content_type \in ContentTypes,
          body \in Bodies :
          LET h == graphql_opts_handler(method, query, content_type, body) IN
          http' = [http EXCEPT
                      !.method = method, !.query = query,
                      !.content_type = content_type, !.body = body,
                      !.consulted = h.consulted,
                      !.phase = IF h.result.ok THEN "extracted" ELSE "rejected",
                      !.request = IF h.result.ok THEN h.result.v ELSE NoRequest,
                      !.rejection = IF h.result.ok THEN ""
                                    ELSE h.result.e.rejection]
    /\ UNCHANGED <<ops, ws, gen>>

\* lines 64-67: the filter's output is handed to schema.execute
HttpExecute ==
    /\ http.phase = "extracted"
    /\ \E resp \in Responses :
          http' = [http EXCEPT !.phase = "executed", !.response = resp,
                               !.executions = http.executions + 1]
    /\ UNCHANGED <<ops, ws, gen>>

\* GQLResponse::from(..) is turned into the reply
HttpReply ==
    /\ http.phase = "executed"
    /\ http' = [http EXCEPT !.phase = "replied",
                            !.reply = into_response(http.response)]
    /\ UNCHANGED <<ops, ws, gen>>

NextHttp == HttpRequest \/ HttpExecute \/ HttpReply

SpecHttp == Init /\ [][NextHttp]_vars


(***************************************************************************)
(* Actions of the WebSocket filter.                                        *)
(***************************************************************************)
\* a request reaches the filter; warp::ws() refuses what is no upgrade request
WsHandshake ==
    /\ ws.phase = "idle"
    /\ \E upgrade \in BOOLEAN, initializer \in {None, Some("init_fn")} :
          ws' = IF upgrade
                THEN [ws EXCEPT !.phase = "open", !.initializer = initializer,
                                !.reply = upgrade_reply(initializer)]
                ELSE [ws EXCEPT !.phase = "rejected"]
    /\ UNCHANGED <<ops, http, gen>>

\* the client sends a frame
WsFrame ==
    /\ ws.phase = "open"
    /\ Len(ws.inbound) < MaxFrames
    /\ \E frame \in Frames :
          ws' = [inbound_step(ws, frame) EXCEPT !.inbound = Append(ws.inbound, frame)]
    /\ UNCHANGED <<ops, http, gen>>

\* lines 217-219: the engine emits a message, forwarded as a text frame
WsSend ==
    /\ ws.phase = "open"
    /\ Len(ws.sent) < Len(ws.delivered)
    /\ \E s \in {<<"connection_ack">>, <<"data">>, <<"complete">>} :
          ws' = [ws EXCEPT !.sent = Append(ws.sent, message_text(s))]
    /\ UNCHANGED <<ops, http, gen>>

\* the connection closes
WsClose ==
    /\ ws.phase = "open"
    /\ ws' = [ws EXCEPT !.phase = "closed"]
    /\ UNCHANGED <<ops, http, gen>>

NextWs == WsHandshake \/ WsFrame \/ WsSend \/ WsClose

SpecWs == Init /\ [][NextWs]_vars


(***************************************************************************)
(* Schema build: the macro is applied to an impl.                          *)
(***************************************************************************)
Generate ==
    /\ gen.phase = "idle"
    /\ \E decls \in DeclLists :
          gen' = [phase |-> "done", decls |-> decls, result |-> generate(decls)]
    /\ UNCHANGED <<ops, http, ws>>

NextGen == Generate

SpecGen == Init /\ [][NextGen]_vars

(***************************************************************************)
(* What an operation's trace says.                                         *)
(***************************************************************************)
\* the raw values the handler's stream has yielded, in order
RawSeq(s) ==
    LET evs == Events(s.trace, "raw_item") IN [i \in 1..Len(evs) |-> evs[i].x]

\* the handler was invoked and returned its stream
HandlerReturned(s) == \E i \in 1..Len(s.trace) :
    s.trace[i].e = "handler" /\ s.trace[i].x.ok

HandlerFailed(s) == \E i \in 1..Len(s.trace) :
    s.trace[i].e = "handler" /\ ~s.trace[i].x.ok

GuardFailed(s) == \E i \in 1..Len(s.trace) :
    s.trace[i].e = "guard" /\ ~s.trace[i].x

BindFailed(s) == \E i \in 1..Len(s.trace) :
    s.trace[i].e = "bind" /\ ~s.trace[i].x.ok

\* param_value was called for the argument called name
BindReached(s, name) == \E i \in 1..Len(s.trace) :
    s.trace[i].e = "bind" /\ s.trace[i].x.name = name

\* the index of the first raw item whose resolution fails, 0 when there is none
FirstFailure(raw) ==
    IF \E i \in 1..Len(raw) : raw[i] \in Unresolvable
    THEN CHOOSE i \in 1..Len(raw) :
            /\ raw[i] \in Unresolvable
            /\ \A j \in 1..(i - 1) : raw[j] \notin Unresolvable
    ELSE 0

\* the success item of raw value v under response key k
SuccessItem(k, v) ==
    Ok([type |-> "Object", fields |-> {<<k, [type |-> "Number", n |-> v]>>}])

ResponseKeyOf(sel) == IF sel.alias.tag = "Some" THEN sel.alias.v ELSE sel.name

(***************************************************************************)
(* C1: when binding, guard and handler succeed and every raw value         *)
(* v1..vn resolves, the consumer receives exactly the n success items      *)
(* {response_key: resolve(vi)}, in raw order, and then completion: at any  *)
(* moment the items received are the wrapped images of a prefix of the raw *)
(* sequence, and once the raw stream has ended all n have been received    *)
(* and the stream is done.                                                 *)
(***************************************************************************)
C1_AllResolved ==
    \A o \in Ops :
        LET s == ops[o]
            raw == RawSeq(s)
        IN (HandlerReturned(s) /\ FirstFailure(raw) = 0) =>
              /\ Len(s.out) <= Len(raw)
              /\ \A i \in 1..Len(s.out) :
                    s.out[i] = SuccessItem(ResponseKeyOf(s.sel), raw[i])
              /\ Count(s.trace, "raw_end") = 1 =>
                    /\ Len(s.out) = Len(raw)
                    /\ s.stage = "done"

\* an aliased operation whose raw stream yielded 1 then 2 and ended
C1_Witness ==
    LET s == ops["op1"] IN
    /\ s.stage = "done"
    /\ Count(s.trace, "raw_end") = 1
    /\ s.sel.alias = Some(N_alias)
    /\ RawSeq(s) = <<1, 2>>
    /\ Len(s.out) = 2

(***************************************************************************)
(* C2: when raw item k is the first whose resolution fails, the consumer   *)
(* receives exactly k items, k-1 successes and then one error, and nothing *)
(* after them whatever the raw stream yields later.                        *)
(***************************************************************************)
C2_FirstErrorEnds ==
    \A o \in Ops :
        LET s == ops[o]
            raw == RawSeq(s)
            k == FirstFailure(raw)
        IN (HandlerReturned(s) /\ k > 0) =>
              /\ Len(s.out) <= k
              /\ \A i \in 1..Len(s.out) : s.out[i].ok <=> i < k
              /\ Count(s.trace, "resolved") >= k => Len(s.out) = k

\* item 2 failed, the raw stream went on to yield a resolvable third value,
\* and the stream is done with two items received
C2_Witness ==
    LET s == ops["op1"] IN
    /\ s.stage = "done"
    /\ RawSeq(s) = <<1, 0, 2>>
    /\ Len(s.out) = 2
    /\ s.out[1].ok /\ ~s.out[2].ok

(***************************************************************************)
(* C3: once a field's guard check has failed, the handler has not been and *)
(* is never invoked, and no raw item is requested.                         *)
(***************************************************************************)
C3_GuardBeforeHandler ==
    \A o \in Ops :
        GuardFailed(ops[o]) =>
            /\ Count(ops[o].trace, "handler") = 0
            /\ Count(ops[o].trace, "raw_req") = 0
            /\ Count(ops[o].trace, "raw_item") = 0

\* the guard failed and the consumer polled the stream to its end
C3_Witness ==
    /\ GuardFailed(ops["op1"])
    /\ ops["op1"].stage = "done"
    /\ Count(ops["op1"].trace, "pull") = 2

(***************************************************************************)
(* C4: for a declared argument absent from the request: with no default    *)
(* and a type that does not allow absence, binding it yields a             *)
(* MissingArgument error naming it and the handler is never invoked; with  *)
(* a default, no MissingArgument error for it is produced and a handler    *)
(* invocation receives the default expression's value in its position.     *)
(***************************************************************************)
C4_MissingArgument ==
    \A o \in Ops :
        LET s == ops[o] IN
        s.field # 0 =>
            \A i \in 1..Len(Bindings[s.field].args) :
                LET a == Bindings[s.field].args[i] IN
                (BindReached(s, a.name) /\ ~HasArg(s.sel, a.name)) =>
                    /\ (a.default.tag = "None" /\ a.ty = "Int") =>
                          /\ s.out = <<Err([kind |-> "MissingArgument",
                                            name |-> a.name, pos |-> s.sel.pos])>>
                          /\ Count(s.trace, "handler") = 0
                    /\ a.default.tag = "Some" =>
                          /\ \A j \in 1..Len(s.out) :
                                s.out[j].ok \/ s.out[j].e.kind # "MissingArgument"
                                            \/ s.out[j].e.name # a.name
                          /\ \A j \in 1..Len(s.trace) :
                                s.trace[j].e = "handler" =>
                                    s.trace[j].x.args[i] =
                                        [t |-> "Int",
                                         n |-> a.default.v.base + a.default.v.inc]

\* onMsg(from: 5) without stepBy: the handler was invoked with (5, 2)
C4_Witness ==
    LET s == ops["op1"] IN
    /\ s.sel.name = N_onMsg
    /\ ~HasArg(s.sel, N_stepBy)
    /\ \E j \in 1..Len(s.trace) :
          /\ s.trace[j].e = "handler"
          /\ s.trace[j].x.args = <<IntValue(5), IntValue(2)>>

(***************************************************************************)
(* C5: a selection whose name matches no registered field yields exactly   *)
(* one item, the FieldNotFound error with the requested name, the          *)
(* subscription type's name and the selection's position, then completes;  *)
(* no argument is bound, no guard checked, no handler invoked.             *)
(***************************************************************************)
C5_FieldNotFound ==
    \A o \in Ops :
        LET s == ops[o] IN
        (s.stage # "nostream"
            /\ \A i \in 1..Len(Bindings) : Bindings[i].field_name # s.sel.name) =>
            /\ Len(s.out) <= 1
            /\ \A i \in 1..Len(s.out) :
                  s.out[i] = Err([kind |-> "FieldNotFound",
                                  field_name |-> s.sel.name,
                                  object |-> GqlTypename, pos |-> s.sel.pos])
            /\ s.stage \in {"drained", "done"} => Len(s.out) = 1
            /\ s.stage = "done" => Count(s.trace, "pull") = 2
            /\ Count(s.trace, "bind") = 0
            /\ Count(s.trace, "guard") = 0
            /\ Count(s.trace, "handler") = 0

\* `Tick` under an alias: one error received, then the stream completed
C5_Witness ==
    LET s == ops["op1"] IN
    /\ s.sel.name = N_Tick
    /\ s.sel.alias = Some(N_alias)
    /\ s.stage = "done"
    /\ Len(s.out) = 1

(***************************************************************************)
(* C6: when argument binding, the guard check or the handler invocation    *)
(* fails, the consumer receives exactly one item, an error, and the next   *)
(* poll completes the stream: no success item, no second error, and no raw *)
(* item is requested or resolved.                                          *)
(***************************************************************************)
C6_SingleError ==
    \A o \in Ops :
        LET s == ops[o] IN
        (BindFailed(s) \/ GuardFailed(s) \/ HandlerFailed(s)) =>
            /\ Len(s.out) = 1
            /\ ~s.out[1].ok
            /\ s.stage \in {"drained", "done", "dropped"}
            /\ Count(s.trace, "raw_req") = 0
            /\ Count(s.trace, "resolve") = 0
            /\ Count(s.trace, "complete") = 1 => Count(s.trace, "pull") = 2

\* the handler returned an error and the stream was polled to its end
C6_Witness ==
    LET s == ops["op1"] IN
    /\ HandlerFailed(s)
    /\ s.stage = "done"
    /\ Len(s.out) = 1

(***************************************************************************)
(* C7: the HTTP filter branches on the method alone: a GET request is      *)
(* answered from the raw query string and nothing else, any other method   *)
(* from content-type and body and nothing else; a failed decode or parse   *)
(* rejects with BadRequest, yields no request and no execution starts.     *)
(***************************************************************************)
C7_MethodBranch ==
    http.phase # "idle" =>
        LET r == IF http.method = "GET"
                 THEN serde_urlencoded_from_str(http.query)
                 ELSE receive_body(http.content_type, http.body)
        IN /\ http.consulted = IF http.method = "GET" THEN {"query"}
                               ELSE {"content-type", "body"}
           /\ r.ok => /\ http.request = r.v
                      /\ http.rejection = ""
                      /\ http.phase # "rejected"
           /\ ~r.ok => /\ http.rejection = "BadRequest"
                       /\ http.phase = "rejected"
                       /\ http.request = NoRequest
                       /\ http.executions = 0

\* a HEAD request with a well-formed query string and an unreadable body is
\* rejected
C7_Witness ==
    /\ http.method = "HEAD"
    /\ http.query = Q_a
    /\ http.body.fmt = "garbage"
    /\ http.phase = "rejected"
    /\ http.rejection = "BadRequest"

(***************************************************************************)
(* C8: the reply built from an execution result that holds an error has no *)
(* cache-control header, whatever the result's cache control and data.     *)
(***************************************************************************)
C8_NoCacheControlOnError ==
    (http.phase = "replied" /\ http.response.error) =>
        "cache-control" \notin DOMAIN http.reply.headers

\* a partial result (data and an error) with max-age 2 was replied to
C8_Witness ==
    /\ http.phase = "replied"
    /\ http.response.error /\ http.response.data
    /\ http.response.cache_control.max_age = 2

(***************************************************************************)
(* C9: the reply built from an error-free result whose cache-control value *)
(* is present carries a cache-control header of exactly that value.        *)
(***************************************************************************)
C9_CacheControlHeader ==
    (http.phase = "replied" /\ ~http.response.error
        /\ cache_control_value(http.response.cache_control).tag = "Some") =>
        /\ "cache-control" \in DOMAIN http.reply.headers
        /\ http.reply.headers["cache-control"] =
              cache_control_value(http.response.cache_control).v

\* an error-free private result of max-age 2: "max-age=2, private"
C9_Witness ==
    /\ http.phase = "replied"
    /\ ~http.response.error
    /\ http.response.cache_control = [max_age |-> 2, public |-> FALSE]
    /\ "cache-control" \in DOMAIN http.reply.headers
    /\ http.reply.headers["cache-control"] =
          <<"m", "a", "x", "-", "a", "g", "e", "=", "2",
            ",", " ", "p", "r", "i", "v", "a", "t", "e">>

(***************************************************************************)
(* C10: every upgrade reply of the subscription filter carries             *)
(* Sec-WebSocket-Protocol: graphql-ws, with or without an initializer,     *)
(* whatever frames follow and whether or not an operation is started.      *)
(***************************************************************************)
C10_SubprotocolHeader ==
    ws.phase \in {"open", "closed"} =>
        /\ ws.reply.status = 101
        /\ "sec-websocket-protocol" \in DOMAIN ws.reply.headers
        /\ ws.reply.headers["sec-websocket-protocol"] = "graphql-ws"

\* a connection without initializer that closed before any frame was sent
C10_Witness ==
    /\ ws.phase = "closed"
    /\ ws.initializer = None
    /\ ws.inbound = <<>>
    /\ ws.reply.status = 101

(***************************************************************************)
(* C11: the engine is handed exactly the frames that arrived before the    *)
(* first malformed frame, in arrival order, as their byte payloads; the    *)
(* malformed frame ends the inbound stream and nothing that arrives at or  *)
(* after it is delivered.                                                  *)
(***************************************************************************)
FirstMalformed(frames) ==
    IF \E i \in 1..Len(frames) : ~frames[i].ok
    THEN CHOOSE i \in 1..Len(frames) :
            ~frames[i].ok /\ \A j \in 1..(i - 1) : frames[j].ok
    ELSE Len(frames) + 1

C11_InboundPrefix ==
    LET k == FirstMalformed(ws.inbound) IN
    /\ Len(ws.delivered) = k - 1
    /\ \A i \in 1..(k - 1) :
          ws.delivered[i] = [bytes |-> ws.inbound[i].v.payload]
    /\ ws.ended <=> k <= Len(ws.inbound)

\* a start frame, a malformed frame, then another start frame: one delivered
C11_Witness ==
    /\ Len(ws.inbound) = 3
    /\ ws.inbound[1] = Ok([kind |-> "text", payload |-> <<"start">>])
    /\ ~ws.inbound[2].ok
    /\ ws.inbound[3] = Ok([kind |-> "text", payload |-> <<"start">>])
    /\ ws.delivered = <<[bytes |-> <<"start">>]>>
    /\ ws.ended

(***************************************************************************)
(* C12: an impl in which a #[field] method declares a post guard is        *)
(* rejected by generate: the result is an error and holds no field binding *)
(* or type implementation; the error is "The subscription field does not   *)
(* support post guard" when no check that runs before the post guard check *)
(* (an earlier method's checks, or this method's asyncness, return type    *)
(* and parameter checks) fails first.                                      *)
(***************************************************************************)
PassesEarlierChecks(d) == d.is_async /\ d.output # "Missing" /\ d.sig = "ok"

C12_PostGuardRejected ==
    (gen.phase = "done" /\ \E i \in 1..Len(gen.decls) : gen.decls[i].post_guard) =>
        /\ ~gen.result.ok
        /\ LET k == CHOOSE i \in 1..Len(gen.decls) :
                        /\ gen.decls[i].post_guard
                        /\ \A j \in 1..(i - 1) : ~gen.decls[j].post_guard
           IN (\A j \in 1..k : PassesEarlierChecks(gen.decls[j])) =>
                 gen.result.e = "The subscription field does not support post guard"

\* a well-formed first method, a second with a guard and a post guard
C12_Witness ==
    /\ gen.phase = "done"
    /\ Len(gen.decls) = 2
    /\ PassesEarlierChecks(gen.decls[1]) /\ ~gen.decls[1].post_guard
    /\ PassesEarlierChecks(gen.decls[2])
    /\ gen.decls[2].guard /\ gen.decls[2].post_guard
    /\ gen.result = Err("The subscription field does not support post guard")

(***************************************************************************)
(* C13: with two operations running concurrently, what each operation's    *)
(* consumer has received is what the operation's own resolved raw values   *)
(* determine, whatever the other operation has done: the items are the     *)
(* results of its own raw values in order up to and including its own      *)
(* first failure, its latch is set exactly when one of its own items       *)
(* failed, and it is done exactly when its own raw stream ended or it was  *)
(* polled to the end after its own failure.                                *)
(***************************************************************************)
ResolvedSeq(s) ==
    LET evs == Events(s.trace, "resolved") IN [i \in 1..Len(evs) |-> evs[i].x]

C13_Isolation ==
    \A o \in Ops :
        LET s == ops[o]
            res == ResolvedSeq(s)
            k == FirstFailure(res)
            n == IF k = 0 THEN Len(res) ELSE k
        IN HandlerReturned(s) =>
              /\ Len(s.out) = n
              /\ \A i \in 1..n :
                    IF res[i] \in Unresolvable THEN ~s.out[i].ok
                    ELSE s.out[i] = SuccessItem(ResponseKeyOf(s.sel), res[i])
              /\ s.errored <=> k > 0
              /\ s.stage = "done" <=>
                    (Count(s.trace, "raw_end") = 1 \/ (k > 0 /\ Len(res) > k))

\* op1 failed on its first item and was polled to the end; op2 delivered two
\* items and ended with its raw stream
C13_Witness ==
    /\ ops["op1"].errored /\ ops["op1"].stage = "done"
    /\ RawSeq(ops["op1"]) = <<0, 1>>
    /\ Len(ops["op1"].out) = 1
    /\ ops["op2"].stage = "done"
    /\ RawSeq(ops["op2"]) = <<1, 1>>
    /\ Len(ops["op2"].out) = 2
    /\ \A i \in 1..2 : ops["op2"].out[i].ok

(***************************************************************************)
(* C14: once the consumer has dropped the stream nothing more happens for  *)
(* the operation: no raw item is requested, no resolution is started, no   *)
(* item is delivered, and no future is left in flight. Every step of the   *)
(* pipeline (binding, guard, handler call, raw request, raw item,          *)
(* resolution) happens under an outstanding pull, that is after a pull     *)
(* that has not yet been answered by an item or by completion.             *)
(***************************************************************************)
WorkEvents ==
    {"bind", "guard", "handler", "raw_req", "raw_item", "resolve", "resolved"}

AnswerEvents == {"emit", "complete", "drop"}

C14_NoWorkAfterDrop ==
    \A o \in Ops :
        LET s == ops[o]
            tr == s.trace
        IN /\ \A i \in 1..Len(tr) : tr[i].e = "drop" => i = Len(tr)
           /\ s.stage = "dropped" => (~s.demand /\ s.inflight = None)
           /\ \A j \in 1..Len(tr) :
                 tr[j].e \in WorkEvents =>
                    \E i \in 1..(j - 1) :
                       /\ tr[i].e = "pull"
                       /\ \A m \in (i + 1)..(j - 1) : tr[m].e \notin AnswerEvents

\* dropped while the resolution of the second raw item was in flight
C14_Witness ==
    LET s == ops["op1"]
        n == Len(s.trace)
    IN /\ s.stage = "dropped"
       /\ n >= 2
       /\ s.trace[n].e = "drop"
       /\ s.trace[n - 1].e = "resolve"
       /\ Len(RawSeq(s)) = 2
       /\ Len(s.out) = 1
       /\ Count(s.trace, "resolved") = 1

(***************************************************************************)
(* C15: dispatch compares names as literal strings. A selection whose name *)
(* equals a registered field name runs that field's stream: only that      *)
(* field's arguments are bound, a guard is checked only when that field    *)
(* has one, and the handler is called with that field's argument list. A   *)
(* selection whose name equals no registered name, even one that differs   *)
(* from a registered name only in letter case, runs no field: it yields    *)
(* FieldNotFound and binds, guards and invokes nothing.                    *)
(***************************************************************************)
Registered(name) == {i \in 1..Len(Bindings) : Bindings[i].field_name = name}

DiffersOnlyInCase(name) ==
    /\ Registered(name) = {}
    /\ \E i \in 1..Len(Bindings) : CaseFold(Bindings[i].field_name) = CaseFold(name)

C15_CaseSensitiveDispatch ==
    \A o \in Ops :
        LET s == ops[o]
            tr == s.trace
        IN s.stage # "nostream" =>
            IF Registered(s.sel.name) # {}
            THEN /\ s.field \in Registered(s.sel.name)
                 /\ \A j \in 1..Len(tr) :
                       /\ tr[j].e = "bind" =>
                             \E a \in 1..Len(Bindings[s.field].args) :
                                 Bindings[s.field].args[a].name = tr[j].x.name
                       /\ tr[j].e = "guard" => Bindings[s.field].guard
                       /\ tr[j].e = "handler" =>
                             Len(tr[j].x.args) = Len(Bindings[s.field].args)
                 /\ \A i \in 1..Len(s.out) :
                       ~s.out[i].ok => s.out[i].e.kind # "FieldNotFound"
            ELSE /\ s.field = 0
                 /\ \A j \in 1..Len(tr) : tr[j].e \notin {"bind", "guard", "handler"}
                 /\ \A i \in 1..Len(s.out) :
                       s.out[i] = Err(FieldNotFound(s.sel))
                 /\ s.stage \in {"drained", "done"} => Len(s.out) = 1

\* `Tick`, which differs from the registered `tick` in the case of one letter:
\* the consumer has received FieldNotFound and has not yet polled again
C15_Witness ==
    LET s == ops["op1"] IN
    /\ s.sel.name = N_Tick
    /\ DiffersOnlyInCase(s.sel.name)
    /\ s.sel.alias = None
    /\ s.stage = "drained"
    /\ s.out = <<Err(FieldNotFound(s.sel))>>

(***************************************************************************)
(* C16: once an error item of the per-item pipeline has been delivered     *)
(* (the latch is set), the next pull completes the stream at once: after   *)
(* that delivery no raw item is requested, no raw item is taken, no        *)
(* resolution is started and the stream never waits on the raw stream.     *)
(* The code does otherwise: the closure of scan that reads the latch runs  *)
(* only when `then` has yielded one more resolved item.                    *)
(***************************************************************************)
C16_LatchedPullCompletes ==
    \A o \in Ops :
        LET s == ops[o]
            tr == s.trace
        IN (HandlerReturned(s) /\ s.errored) =>
              /\ s.stage \notin {"rawwait", "resolving"}
              /\ \A i \in 1..Len(tr) :
                    (tr[i].e = "emit" /\ ~tr[i].x) =>
                        \A j \in (i + 1)..Len(tr) :
                            tr[j].e \notin {"raw_req", "raw_item", "resolve"}

\* the latch is set by the failure of the first raw item, the consumer has
\* pulled again, and the stream is waiting for the raw stream's next item
C16_Witness ==
    LET s == ops["op1"] IN
    /\ s.errored /\ s.demand
    /\ s.stage = "rawwait"
    /\ RawSeq(s) = <<0>>
    /\ Len(s.out) = 1 /\ ~s.out[1].ok
    /\ Count(s.trace, "raw_req") = 2

(***************************************************************************)
(* C17: within one operation the raw items are resolved one at a time, in  *)
(* the order the raw stream yielded them: the n-th resolution starts only  *)
(* when the results of the n-1 before it have been produced, every raw     *)
(* item taken has had its resolution started, and the values resolved so   *)
(* far are the first raw values in raw order.                              *)
(***************************************************************************)
\* the number of events of kind e among the first j events of a trace
CountBefore(tr, e, j) == Count(SubSeq(tr, 1, j - 1), e)

C17_SequentialResolution ==
    \A o \in Ops :
        LET s == ops[o]
            tr == s.trace
            raw == RawSeq(s)
            res == ResolvedSeq(s)
        IN /\ \A j \in 1..Len(tr) :
                 tr[j].e = "resolve" =>
                    /\ CountBefore(tr, "resolved", j) = CountBefore(tr, "resolve", j)
                    /\ CountBefore(tr, "raw_item", j) = CountBefore(tr, "resolve", j) + 1
           /\ Len(res) <= Len(raw)
           /\ res = SubSeq(raw, 1, Len(res))
           /\ Len(raw) - Len(res) \in {0, 1}
           /\ s.stage = "resolving" => Len(raw) = Len(res) + 1

\* two items resolved and delivered, the third being resolved
C17_Witness ==
    LET s == ops["op1"] IN
    /\ s.stage = "resolving"
    /\ RawSeq(s) = <<2, 1, 2>>
    /\ ResolvedSeq(s) = <<2, 1>>
    /\ Len(s.out) = 2
    /\ Count(s.trace, "resolve") = 3

(***************************************************************************)
(* C18: the raw stream is driven by the consumer's pulls, one item at a    *)
(* time: at every point the raw items requested are at most one more than  *)
(* the items delivered, and so are the raw items taken; there are never    *)
(* more raw requests than pulls, a request or a resolution is outstanding  *)
(* only while a pull is, and nothing is requested before the handler has   *)
(* returned its stream.                                                    *)
(***************************************************************************)
C18_DemandDriven ==
    \A o \in Ops :
        LET s == ops[o] IN
        /\ Count(s.trace, "raw_req") <= Len(s.out) + 1
        /\ Count(s.trace, "raw_item") <= Len(s.out) + 1
        /\ Count(s.trace, "raw_item") <= Count(s.trace, "raw_req")
        /\ Count(s.trace, "raw_req") <= Count(s.trace, "pull")
        /\ s.stage \in {"rawwait", "resolving"} => s.demand
        /\ ~HandlerReturned(s) => Count(s.trace, "raw_req") = 0

\* two items delivered, the third pull has requested the third raw item
C18_Witness ==
    LET s == ops["op1"] IN
    /\ s.stage = "rawwait"
    /\ Len(s.out) = 2
    /\ Count(s.trace, "raw_req") = 3
    /\ Count(s.trace, "pull") = 3
    /\ ~s.errored

(***************************************************************************)
(* C19: per operation, argument binding, the guard check and the handler   *)
(* call happen in that order and at most once each (each argument is bound *)
(* at most once), and the first failure stops the rest: the guard is       *)
(* checked only after every argument has bound, the handler is called only *)
(* after the guard (when the field has one) has passed, and when an        *)
(* argument fails to bind no guard is checked, no handler is called and    *)
(* the one item delivered is that argument's error, whatever the guard     *)
(* would have decided.                                                     *)
(***************************************************************************)
Indices(tr, e) == {j \in 1..Len(tr) : tr[j].e = e}

MaxOf(S) == CHOOSE x \in S : \A y \in S : y <= x

C19_PipelineOrder ==
    \A o \in Ops :
        LET s == ops[o]
            tr == s.trace
            B == Indices(tr, "bind")
            G == Indices(tr, "guard")
            H == Indices(tr, "handler")
        IN /\ Cardinality(G) <= 1 /\ Cardinality(H) <= 1
           /\ \A i, j \in B : tr[i].x.name = tr[j].x.name => i = j
           /\ \A i \in B, j \in G \cup H : i < j
           /\ \A i \in G, j \in H : i < j
           /\ (G \cup H # {}) =>
                 /\ s.field # 0
                 /\ Cardinality(B) = Len(Bindings[s.field].args)
                 /\ \A i \in B : tr[i].x.ok
           /\ H # {} =>
                 /\ Bindings[s.field].guard => \E i \in G : tr[i].x
                 /\ ~GuardFailed(s)
           /\ \A i \in B :
                 ~tr[i].x.ok =>
                    /\ i = MaxOf(B)
                    /\ G = {} /\ H = {}
                    /\ Count(tr, "raw_req") = 0
                    /\ Len(s.out) = 1
                    /\ ~s.out[1].ok
                    /\ s.out[1].e.kind \in {"MissingArgument", "InvalidArgument"}
                    /\ s.out[1].e.name = tr[i].x.name

\* onMsg, a guarded field, selected with an ill-typed `from`: the argument
\* error was delivered, the stream completed, and no guard was checked
C19_Witness ==
    LET s == ops["op1"] IN
    /\ s.sel.name = N_onMsg
    /\ s.field # 0
    /\ Bindings[s.field].guard
    /\ HasArg(s.sel, N_from)
    /\ GetArg(s.sel, N_from) = StrValue
    /\ s.stage = "done"
    /\ s.out = <<Err([kind |-> "InvalidArgument", name |-> N_from,
                      pos |-> s.sel.pos])>>
    /\ Count(s.trace, "guard") = 0

(***************************************************************************)
(* C20: every raw item is resolved in a context created for it: one        *)
(* context is created per raw item taken, each starts with its resolve-id  *)
(* counter at zero and with the path node (no parent, segment the field's  *)
(* response key), and this holds whatever the resolutions of earlier items *)
(* wrote to their own contexts' counters.                                  *)
(***************************************************************************)
FreshContext(sel) ==
    [resolve_id |-> 0,
     path_node |-> [tag |-> "Some",
                    v |-> [parent |-> [tag |-> "None"],
                           segment |-> ResponseKeyOf(sel)]]]

C20_FreshContextPerItem ==
    \A o \in Ops :
        LET s == ops[o]
            tr == s.trace
        IN /\ Count(tr, "resolve") = Count(tr, "raw_item")
           /\ \A j \in 1..Len(tr) :
                 /\ tr[j].e = "resolve" =>
                       /\ tr[j].x = FreshContext(s.sel)
                       /\ j > 1 /\ tr[j - 1].e = "raw_item"
                 /\ tr[j].e = "ctx_drop" => tr[j].x.resolve_id > 0
           /\ s.inflight.tag = "Some" => s.inflight.v.ctx = FreshContext(s.sel)

\* under an alias: the first item's resolution left its counter at 3, and the
\* second item is being resolved in a context whose counter is 0
C20_Witness ==
    LET s == ops["op1"] IN
    /\ s.sel.alias = Some(N_alias)
    /\ s.stage = "resolving"
    /\ RawSeq(s) = <<2, 1>>
    /\ \E j \in 1..Len(s.trace) :
          s.trace[j].e = "ctx_drop" /\ s.trace[j].x.resolve_id = 3
    /\ s.inflight = Some([msg |-> 1, ctx |-> FreshContext(s.sel)])
    /\ s.inflight.v.ctx.path_node.v.segment = N_alias

(***************************************************************************)
(* C21 as stated: an argument's getter hands back the value computed once  *)
(* during binding: every call returns the bound value and the argument's   *)
(* default-value expression is evaluated at most once per operation,       *)
(* however often the getter is called.                                     *)
(***************************************************************************)
ArgIndex(field, name) ==
    CHOOSE i \in 1..Len(Bindings[field].args) : Bindings[field].args[i].name = name

GetterCalls(s, name) ==
    {j \in 1..Len(s.trace) : s.trace[j].e = "getter" /\ s.trace[j].x.name = name}

\* the evaluations of the default-value expression of the argument called name:
\* by the param_value call of binding and by those of the getter
DefaultEvals(s, name) ==
    LET a == Bindings[s.field].args[ArgIndex(s.field, name)]
        binding == IF BindReached(s, name) /\ EvaluatesDefault(s.sel, name, a.default)
                   THEN 1 ELSE 0
    IN binding + Cardinality({j \in GetterCalls(s, name) :
                                 s.trace[j].x.default_evaluated})

C21_GetterMemoized ==
    \A o \in Ops :
        LET s == ops[o] IN
        \A j \in 1..Len(s.trace) :
            s.trace[j].e = "getter" =>
                /\ s.trace[j].x.res = Ok(s.args[ArgIndex(s.field, s.trace[j].x.name)])
                /\ DefaultEvals(s, s.trace[j].x.name) <= 1

(***************************************************************************)
(* C21 amended: every call of an argument's getter returns the value the   *)
(* argument was bound to, and does so by running the binder again: when    *)
(* the request does not carry the argument and it has a default, each call *)
(* evaluates the default-value expression once more (1 + the number of     *)
(* getter calls evaluations in all); when the request carries it, the      *)
(* default is never evaluated.                                             *)
(***************************************************************************)
C21_GetterRebinds ==
    \A o \in Ops :
        LET s == ops[o] IN
        \A j \in 1..Len(s.trace) :
            s.trace[j].e = "getter" =>
                LET name == s.trace[j].x.name
                    i == ArgIndex(s.field, name)
                    a == Bindings[s.field].args[i]
                IN /\ s.trace[j].x.res = Ok(s.args[i])
                   /\ s.trace[j].x.default_evaluated <=>
                         (~HasArg(s.sel, name) /\ a.default.tag = "Some")
                   /\ DefaultEvals(s, name) =
                         IF ~HasArg(s.sel, name) /\ a.default.tag = "Some"
                         THEN 1 + Cardinality(GetterCalls(s, name))
                         ELSE 0

\* onMsg(from: 5) without stepBy: the getter of stepBy was called twice, each
\* call evaluated the default and returned 2, the value the handler received
C21_Witness ==
    LET s == ops["op1"] IN
    /\ s.sel.name = N_onMsg
    /\ ~HasArg(s.sel, N_stepBy)
    /\ Cardinality(GetterCalls(s, N_stepBy)) = 2
    /\ \A j \in GetterCalls(s, N_stepBy) :
          s.trace[j].x.res = Ok(IntValue(2)) /\ s.trace[j].x.default_evaluated
    /\ DefaultEvals(s, N_stepBy) = 3
    /\ \E j \in 1..Len(s.trace) :
          s.trace[j].e = "handler" /\ s.trace[j].x.args = <<IntValue(5), IntValue(2)>>

(***************************************************************************)
(* C22: creating a field stream does nothing but build the stream: the     *)
(* only event of the call is the dispatch, and argument binding, the guard *)
(* check and the handler call all happen during the first pull (after it   *)
(* and before any item has been delivered). A stream that has not been     *)
(* pulled, dropped or not, has bound nothing, checked no guard, called no  *)
(* handler and delivered nothing.                                          *)
(***************************************************************************)
C22_LazyCreation ==
    \A o \in Ops :
        LET s == ops[o]
            tr == s.trace
        IN /\ s.stage # "nostream" => tr[1].e = "create"
           /\ \A j \in 1..Len(tr) :
                 tr[j].e \in {"bind", "guard", "handler"} =>
                    /\ CountBefore(tr, "pull", j) = 1
                    /\ CountBefore(tr, "emit", j) = 0
                    /\ CountBefore(tr, "drop", j) = 0
           /\ Count(tr, "pull") = 0 =>
                 /\ \A j \in 1..Len(tr) : tr[j].e \in {"create", "drop"}
                 /\ s.out = <<>>
                 /\ s.args = <<>>

\* the stream of onMsg(from: 5), a guarded field, was created and dropped
\* without being pulled
C22_Witness ==
    LET s == ops["op1"] IN
    /\ s.sel.name = N_onMsg
    /\ s.field = 2
    /\ HasArg(s.sel, N_from)
    /\ s.stage = "dropped"
    /\ Len(s.trace) = 2
    /\ s.trace[1].e = "create" /\ s.trace[2].e = "drop"
    /\ Count(s.trace, "handler") = 0

(***************************************************************************)
(* C23: the stream is chosen by the selection's name, alias or not, and    *)
(* every success item is an object with exactly one key, the selection's   *)
(* response key (the alias when there is one, the name otherwise): the key *)
(* is the same for all items of the operation.                             *)
(***************************************************************************)
KeysOf(item) == {p[1] : p \in item.v.fields}

C23_AliasKeysItems ==
    \A o \in Ops :
        LET s == ops[o] IN
        s.stage # "nostream" =>
            /\ s.field # 0 => Bindings[s.field].field_name = s.sel.name
            /\ s.field = 0 =>
                  \A i \in 1..Len(Bindings) : Bindings[i].field_name # s.sel.name
            /\ \A i \in 1..Len(s.out) :
                  s.out[i].ok =>
                     /\ s.out[i].v.type = "Object"
                     /\ Cardinality(s.out[i].v.fields) = 1
                     /\ KeysOf(s.out[i]) =
                           {IF s.sel.alias.tag = "Some" THEN s.sel.alias.v
                            ELSE s.sel.name}
            /\ \A i, j \in 1..Len(s.out) :
                  (s.out[i].ok /\ s.out[j].ok) => KeysOf(s.out[i]) = KeysOf(s.out[j])

\* onMsg under the alias `a`: dispatched to the second field, and both items
\* delivered so far are keyed `a`
C23_Witness ==
    LET s == ops["op1"] IN
    /\ s.sel.name = N_onMsg
    /\ s.sel.alias = Some(N_alias)
    /\ s.field = 2
    /\ s.stage = "flow"
    /\ Len(s.out) = 2
    /\ \A i \in 1..2 : s.out[i].ok /\ KeysOf(s.out[i]) = {N_alias}
    /\ N_alias # s.sel.name

====
